---- MODULE Spec2Model ----
(***************************************************************************)
(* voxl: the winit ApplicationHandler `App` of src/main.rs, the event loop *)
(* that drives it, and the Renderer / CameraController it forwards to.     *)
(*                                                                         *)
(* An Option<T> is a sequence of length 0 (None) or 1 (Some).  A handler   *)
(* is one atomic action: winit runs each handler to completion before the  *)
(* next event is dispatched.  `ev` is the event the last step handled and  *)
(* `calls` the calls that handler made on the Renderer, the camera         *)
(* controller and the event loop, in order.                                *)
(***************************************************************************)
EXTENDS Integers, Sequences, FiniteSets, TLC

\* ---------------------------------------------------------------- bounds
\* Largest window width, in physical pixels (the height is 0 or 1).
MaxWidth == 2
\* Largest reading of the monotonic clock (instant::Instant::now()).
MaxTime == 1
\* Most pointer-motion events between two update steps.
MaxMotions == 2
\* Most voxels the World holds, over all its entities.
MaxVoxels == 4

VARIABLES
    discipline,        \* "sync" (not wasm32) or "deferred" (wasm32): the build
    status,            \* the process: "running", "exited" or "panicked"
    exiting,           \* event_loop.exit() has been called
    renderer,          \* App.renderer : Option<Renderer>
    last_render_time,  \* App.last_render_time
    proxy,             \* App.proxy : Option<EventLoopProxy>, as a BOOLEAN
    window,            \* Option of the window the (future) Renderer owns
    building,          \* a spawn_local construction is in flight
    mailbox,           \* user events sent through the proxy, not yet handled
    now,               \* the monotonic clock
    frameMotions,      \* pointer deltas the installed camera got since update
    oomSeen,           \* some render() has returned OutOfMemory
    entities,          \* World.entities : Vec<Entity>
    launched,          \* constructions spawn_local has launched
    sent,              \* Renderers sent through the proxy
    redrawn,           \* some redraw was handled with a Renderer installed
    ev,                \* the event handled by the last step
    calls              \* the calls made by the last step's handler

vars == <<discipline, status, exiting, renderer, last_render_time, proxy,
          window, building, mailbox, now, frameMotions, oomSeen, ev,
          calls, entities, launched, sent, redrawn>>

\* All but the trace variables ev and calls, and the World.
loopVars == <<discipline, status, exiting, renderer, last_render_time, proxy,
              window, building, mailbox, now, frameMotions, oomSeen,
              launched, sent, redrawn>>

appVars == <<exiting, renderer, last_render_time, proxy>>

\* ------------------------------------------------------------ vocabulary
None == <<>>
Some(x) == <<x>>
IsSome(o) == Len(o) = 1
Unwrap(o) == o[1]

Sizes == (0..MaxWidth) \X (0..1)
NonZero(s) == s[1] > 0 /\ s[2] > 0
NonZeroSizes == {s \in Sizes : NonZero(s)}
\* The raw pointer deltas (dx, dy) the platform reports.
MotionInputs == {<<1, 2>>, <<3, -1>>}

\* wgpu::SurfaceError, plus Ok
SurfaceResults == {"Ok", "Lost", "Outdated", "OutOfMemory", "Timeout", "Other"}
\* PhysicalKey::Code(code)
KeyCodes == {"Escape", "KeyW"}

Call(op, res, a, b) == [op |-> op, res |-> res, a |-> a, b |-> b]
Event(type, a, b, key, pressed) ==
    [type |-> type, a |-> a, b |-> b, key |-> key, pressed |-> pressed,
     voxels |-> <<>>]
PlainEvent(type) == Event(type, 0, 0, "", FALSE)

\* The Application state of the state machine (Uninitialized / Active / Exiting)
AppState ==
    IF exiting THEN "Exiting"
    ELSE IF IsSome(renderer) THEN "Active" ELSE "Uninitialized"

\* ------------------------------------------- Renderer and CameraController
\* Renderer::new(window): the surface is configured for the window's size.
RendererNew(size) == [size |-> size, config |-> size, cam |-> <<0, 0>>]

\* Renderer::resize(width, height): the size is stored; the surface is
\* reconfigured only when both dimensions are non-zero.
RendererResize(r, w, h) ==
    [r EXCEPT !.size = <<w, h>>,
              !.config = IF w > 0 /\ h > 0 THEN <<w, h>> ELSE @]

\* CameraController::process_mouse(dx, dy): additive accumulation.
ProcessMouse(r, dx, dy) == [r EXCEPT !.cam = <<@[1] + dx, @[2] + dy>>]

\* Renderer::update(dt): consumes the pending deltas and clears them.
RendererUpdate(r, dt) == [r EXCEPT !.cam = <<0, 0>>]

\* ------------------------------------------------------------------ Init
\* The clock reading App::new stores: `instant::Instant::now()`.
CreatedAt == 0

Init ==
    /\ discipline \in {"sync", "deferred"}
    /\ status = "running"
    /\ exiting = FALSE
    /\ renderer = None
    /\ last_render_time = CreatedAt
    /\ proxy = (discipline = "deferred")
    /\ window = None
    /\ building = FALSE
    /\ mailbox = <<>>
    /\ now = CreatedAt
    /\ frameMotions = <<>>
    /\ oomSeen = FALSE
    /\ entities = <<>>
    /\ launched = 0
    /\ sent = 0
    /\ redrawn = FALSE
    /\ ev = PlainEvent("Init")
    /\ calls = <<>>

\* ------------------------------------------------- the platform's window
\* event_loop.create_window(..): the cursor is free and visible.
NewWindow(size) ==
    [size |-> size, cursor_grab |-> "None", cursor_visible |-> TRUE]

\* The window after set_cursor_grab(Confined), which the platform grants
\* or refuses, and set_cursor_visible(false).
GrabAndHide(w, outcome) ==
    [w EXCEPT !.cursor_grab = IF outcome = "grab_failed" THEN "None"
                              ELSE "Confined",
              !.cursor_visible = FALSE]

Running == status = "running"

\* As Panic, were the failure swallowed: the handler returns normally.
PanicSwallowed ==
    /\ status' = status
    /\ UNCHANGED <<appVars, window, building, mailbox, frameMotions,
                   launched>>

\* A panic (unwrap / expect) ends the process inside the handler.
Panic ==
    /\ status' = "panicked"
    /\ UNCHANGED <<appVars, window, building, mailbox, frameMotions,
                   launched>>

\* ---------------------------------------------------------- App::resumed
\* #[cfg(not(target_arch = "wasm32"))]: the build blocks on Renderer::new.
SynchronousBuildAlways == TRUE

SynchronousBuild == discipline = "sync"

\* `.unwrap()` of create_window
WindowFailureIsFatal(outcome) == outcome = "window_failed"

\* As GrabFailureIsFatal, were the Result of set_cursor_grab dropped.
GrabFailureIgnored(outcome) == FALSE

\* `.expect("failed to set cursor grab mode")`
GrabFailureIsFatal(outcome) == outcome = "grab_failed"

\* As ProxyAfterTake, were the proxy cloned and left in place.
ProxyAfterClone(p) == p

\* `self.proxy.take()` leaves None behind.
ProxyAfterTake(p) == FALSE

Ok(b) == IF b THEN "Ok" ELSE "Err"

\* The calls of resumed up to the construction of the Renderer.
WindowCalls(outcome, size) ==
    IF outcome = "window_failed"
    THEN <<Call("create_window", "Err", 0, 0)>>
    ELSE <<Call("create_window", "Ok", size[1], size[2]),
           Call("set_cursor_grab", Ok(outcome # "grab_failed"), 0, 0)>>
         \o IF GrabFailureIsFatal(outcome) THEN <<>>
            ELSE <<Call("set_cursor_visible", "", 0, 0)>>

\* outcome: what the platform answers to create_window, set_cursor_grab and
\* (synchronous build) Renderer::new; size: the new window's inner size.
resumed(outcome, size) ==
    /\ ev' = PlainEvent("Ready")
    /\ UNCHANGED <<discipline, now, oomSeen, sent, redrawn>>
    /\ IF WindowFailureIsFatal(outcome) \/ GrabFailureIsFatal(outcome)
       THEN Panic /\ calls' = WindowCalls(outcome, size)
       ELSE IF SynchronousBuild
       THEN IF outcome = "gpu_failed"
            THEN /\ Panic
                 /\ calls' = WindowCalls(outcome, size)
                               \o <<Call("Renderer::new", "Err", 0, 0)>>
            ELSE /\ renderer' = Some(RendererNew(size))
                 /\ window' = Some(GrabAndHide(NewWindow(size), outcome))
                 /\ frameMotions' = <<>>
                 /\ calls' = WindowCalls(outcome, size)
                               \o <<Call("Renderer::new", "Ok", size[1], size[2]),
                                    Call("listen_device_events", "", 0, 0)>>
                 /\ UNCHANGED <<status, exiting, last_render_time, proxy,
                                building, mailbox, launched>>
       ELSE IF proxy
            THEN \* self.proxy.take() is Some: spawn_local the construction
                 /\ proxy' = ProxyAfterTake(proxy)
                 /\ building' = TRUE
                 /\ launched' = launched + 1
                 /\ window' = Some(GrabAndHide(NewWindow(size), outcome))
                 /\ calls' = WindowCalls(outcome, size)
                               \o <<Call("spawn_local", "", 0, 0),
                                    Call("listen_device_events", "", 0, 0)>>
                 /\ UNCHANGED <<status, exiting, renderer, last_render_time,
                                mailbox, frameMotions>>
            ELSE \* the proxy is gone: the new window is dropped on return
                 /\ calls' = WindowCalls(outcome, size)
                               \o <<Call("listen_device_events", "", 0, 0)>>
                 /\ UNCHANGED <<status, appVars, window, building, mailbox,
                                frameMotions, launched>>

\* ------------------------------------------------------- App::user_event
\* As user_event, without the wasm32 block that resizes the delivered Renderer.
user_event_no_resize(event) ==
    /\ ev' = PlainEvent("UserEvent")
    /\ UNCHANGED <<discipline, status, exiting, last_render_time, proxy,
                   window, building, now, oomSeen, launched, sent, redrawn>>
    /\ frameMotions' = <<>>
    /\ renderer' = Some(event)
    /\ calls' = <<>>

\* As user_event, restarting the frame clock when the Renderer is installed.
user_event_resets_clock(event) ==
    /\ ev' = PlainEvent("UserEvent")
    /\ UNCHANGED <<discipline, status, exiting, proxy, window, building, now,
                   oomSeen, launched, sent, redrawn>>
    /\ last_render_time' = now
    /\ frameMotions' = <<>>
    /\ LET size == Unwrap(window).size IN
       /\ renderer' = Some(RendererResize(event, size[1], size[2]))
       /\ calls' = <<Call("request_redraw", "", 0, 0),
                     Call("resize", "", size[1], size[2])>>

\* event: the Renderer the proxy delivered.
user_event(event) ==
    /\ ev' = PlainEvent("UserEvent")
    /\ UNCHANGED <<discipline, status, exiting, last_render_time, proxy,
                   window, building, now, oomSeen, launched, sent, redrawn>>
    /\ frameMotions' = <<>>
    /\ IF discipline = "deferred"
       THEN LET size == Unwrap(window).size IN
            /\ renderer' = Some(RendererResize(event, size[1], size[2]))
            /\ calls' = <<Call("request_redraw", "", 0, 0),
                          Call("resize", "", size[1], size[2])>>
       ELSE /\ renderer' = Some(event)
            /\ calls' = <<>>

\* ----------------------------------------------------- App::device_event
\* `let state = match &mut self.renderer { .., None => return }`
DeviceEarlyReturn(e) == renderer = None

\* As device_event, with the two components of the delta exchanged.
device_event_swapped(e) ==
    /\ ev' = e
    /\ UNCHANGED <<discipline, status, exiting, last_render_time, proxy,
                   window, building, mailbox, now, oomSeen, launched, sent,
                   redrawn>>
    /\ IF DeviceEarlyReturn(e)
       THEN /\ calls' = <<>>
            /\ UNCHANGED <<renderer, frameMotions>>
       ELSE IF e.type = "MouseMotion"
       THEN /\ renderer' = Some(ProcessMouse(Unwrap(renderer), e.b, e.a))
            /\ frameMotions' = Append(frameMotions, <<e.a, e.b>>)
            /\ calls' = <<Call("process_mouse", "", e.b, e.a)>>
       ELSE /\ calls' = <<>>
            /\ UNCHANGED <<renderer, frameMotions>>

device_event(e) ==
    /\ ev' = e
    /\ UNCHANGED <<discipline, status, exiting, last_render_time, proxy,
                   window, building, mailbox, now, oomSeen, launched, sent,
                   redrawn>>
    /\ IF DeviceEarlyReturn(e)
       THEN /\ calls' = <<>>
            /\ UNCHANGED <<renderer, frameMotions>>
       ELSE IF e.type = "MouseMotion"
       THEN /\ renderer' = Some(ProcessMouse(Unwrap(renderer), e.a, e.b))
            /\ frameMotions' = Append(frameMotions, <<e.a, e.b>>)
            /\ calls' = <<Call("process_mouse", "", e.a, e.b)>>
       ELSE /\ calls' = <<>>
            /\ UNCHANGED <<renderer, frameMotions>>

\* ----------------------------------------------------- App::window_event
\* `let state = match &mut self.renderer { .., None => return }`
EarlyReturnAfterKeys(e) == renderer = None /\ e.type # "KeyboardInput"

EarlyReturn(e) == renderer = None

\* `match (code, key_state.is_pressed()) { (KeyCode::Escape, true) => .. }`
KeyRequestsExitOnRelease(code, pressed) == code = "Escape"

KeyRequestsExit(code, pressed) == code = "Escape" /\ pressed

\* As RenderDispatch, recovering with the surface's configured size.
RenderDispatchStaleConfig(state, res) ==
    IF res \in {"Lost", "Outdated"}
    THEN [renderer |-> RendererResize(state, state.config[1], state.config[2]),
          calls |-> <<Call("resize", "", state.config[1], state.config[2])>>,
          exit |-> FALSE]
    ELSE [renderer |-> state,
          calls |-> IF res = "Ok" THEN <<>>
                    ELSE IF res = "OutOfMemory" THEN <<Call("exit", "", 0, 0)>>
                    ELSE <<Call("log::warn", "", 0, 0)>>,
          exit |-> res = "OutOfMemory"]

\* As RenderDispatch, with Timeout sharing the Lost | Outdated arm.
RenderDispatchTimeoutRecovers(state, res) ==
    IF res \in {"Lost", "Outdated", "Timeout"}
    THEN [renderer |-> RendererResize(state, state.size[1], state.size[2]),
          calls |-> <<Call("resize", "", state.size[1], state.size[2])>>,
          exit |-> FALSE]
    ELSE [renderer |-> state,
          calls |-> IF res = "Ok" THEN <<>>
                    ELSE IF res = "OutOfMemory" THEN <<Call("exit", "", 0, 0)>>
                    ELSE <<Call("log::warn", "", 0, 0)>>,
          exit |-> res = "OutOfMemory"]

\* `match state.render() { .. }`: the Renderer after the dispatch, the calls
\* the dispatch makes, and whether it calls event_loop.exit().
RenderDispatch(state, res) ==
    CASE res = "Ok" ->
           [renderer |-> state, calls |-> <<>>, exit |-> FALSE]
      [] res \in {"Lost", "Outdated"} ->
           [renderer |-> RendererResize(state, state.size[1], state.size[2]),
            calls |-> <<Call("resize", "", state.size[1], state.size[2])>>,
            exit |-> FALSE]
      [] res = "OutOfMemory" ->
           [renderer |-> state, calls |-> <<Call("exit", "", 0, 0)>>,
            exit |-> TRUE]
      [] res = "Timeout" ->
           [renderer |-> state, calls |-> <<Call("log::warn", "", 0, 0)>>,
            exit |-> FALSE]
      [] OTHER ->
           [renderer |-> state, calls |-> <<Call("log::warn", "", 0, 0)>>,
            exit |-> FALSE]

\* `WindowEvent::Resized(size) => state.resize(size.width, size.height)`
ResizedArmSkipsZero(state, e) ==
    IF e.a > 0 /\ e.b > 0 THEN RendererResize(state, e.a, e.b) ELSE state

ResizedArm(state, e) == RendererResize(state, e.a, e.b)

\* As FrameDelta, with the operands exchanged.
FrameDeltaReversed(n, last) == last - n

\* `let dt = now - self.last_render_time;`
FrameDelta(n, last) == n - last

\* e: the WindowEvent; res: what state.render() answers if it is called.
window_event(e, res) ==
    /\ ev' = e
    /\ UNCHANGED <<discipline, status, proxy, building, mailbox, now,
                   launched, sent>>
    /\ redrawn' = (redrawn \/ (~EarlyReturn(e) /\ e.type = "RedrawRequested"))
    /\ oomSeen' = (oomSeen \/ (~EarlyReturn(e) /\ e.type = "RedrawRequested"
                                /\ res = "OutOfMemory"))
    /\ IF EarlyReturn(e)
       THEN /\ calls' = <<>>
            /\ UNCHANGED <<exiting, renderer, last_render_time, frameMotions>>
       ELSE LET state == Unwrap(renderer) IN
         CASE e.type = "CloseRequested" ->
                /\ exiting' = TRUE
                /\ calls' = <<Call("exit", "", 0, 0)>>
                /\ UNCHANGED <<renderer, last_render_time, frameMotions>>
           [] e.type = "Resized" ->
                /\ renderer' = Some(ResizedArm(state, e))
                /\ calls' = <<Call("resize", "", e.a, e.b)>>
                /\ UNCHANGED <<exiting, last_render_time, frameMotions>>
           [] e.type = "RedrawRequested" ->
                LET dt == FrameDelta(now, last_render_time)
                    d == RenderDispatch(RendererUpdate(state, dt), res)
                IN /\ last_render_time' = now
                   /\ renderer' = Some(d.renderer)
                   /\ frameMotions' = <<>>
                   /\ exiting' = (exiting \/ d.exit)
                   /\ calls' = <<Call("update", "", dt, 0),
                                 Call("render", res, 0, 0)>> \o d.calls
           [] e.type = "KeyboardInput" ->
                /\ IF KeyRequestsExit(e.key, e.pressed)
                   THEN exiting' = TRUE /\ calls' = <<Call("exit", "", 0, 0)>>
                   ELSE exiting' = exiting /\ calls' = <<>>
                /\ UNCHANGED <<renderer, last_render_time, frameMotions>>
           [] OTHER ->
                /\ calls' = <<>>
                /\ UNCHANGED <<exiting, renderer, last_render_time,
                               frameMotions>>

\* ------------------------------------------------------- the event loop
\* EventLoop::run_app: events are dispatched one at a time while the process
\* runs.  event_loop.exit() only raises a flag: the loop leaves once the
\* events of the current iteration are dispatched, so handlers can still be
\* entered between the call and LoopExits.
SetupOutcomes == {"ok", "window_failed", "grab_failed", "gpu_failed"}

OnReady ==
    /\ Running
    /\ UNCHANGED entities
    /\ \E outcome \in SetupOutcomes, size \in NonZeroSizes :
          resumed(outcome, size)

\* As ConstructionCompletes, with the finished Renderer never sent.
ConstructionCompletesUnsent ==
    /\ Running
    /\ UNCHANGED entities
    /\ building
    /\ NonZero(Unwrap(window).size)
    /\ building' = FALSE
    /\ ev' = PlainEvent("ConstructionCompletes")
    /\ calls' = <<>>
    /\ UNCHANGED <<discipline, status, appVars, window, now, frameMotions,
                   oomSeen, mailbox, launched, sent, redrawn>>

\* As ConstructionCompletes, with the task itself writing App.renderer.
ConstructionCompletesInstalls ==
    /\ Running
    /\ UNCHANGED entities
    /\ building
    /\ NonZero(Unwrap(window).size)
    /\ building' = FALSE
    /\ renderer' = Some(RendererNew(Unwrap(window).size))
    /\ sent' = sent + 1
    /\ ev' = PlainEvent("ConstructionCompletes")
    /\ calls' = <<>>
    /\ UNCHANGED <<discipline, status, exiting, last_render_time, proxy,
                   window, now, frameMotions, oomSeen, mailbox, launched,
                   redrawn>>

\* The spawn_local task: State::new(window).await, then proxy.send_event.
\* The surface is configured for the window's size as the task reads it; a
\* zero dimension is rejected by the surface API (ConstructionFails).
ConstructionCompletes ==
    /\ Running
    /\ UNCHANGED entities
    /\ building
    /\ NonZero(Unwrap(window).size)
    /\ building' = FALSE
    /\ mailbox' = Append(mailbox, RendererNew(Unwrap(window).size))
    /\ sent' = sent + 1
    /\ UNCHANGED <<launched, redrawn>>
    /\ ev' = PlainEvent("ConstructionCompletes")
    /\ calls' = <<>>
    /\ UNCHANGED <<discipline, status, appVars, window, now, frameMotions,
                   oomSeen>>

\* The spawn_local task: `.expect("Unable to create canvas!!!")` fails.
ConstructionFails ==
    /\ Running
    /\ UNCHANGED entities
    /\ building
    /\ building' = FALSE
    /\ status' = "panicked"
    /\ UNCHANGED <<launched, sent, redrawn>>
    /\ ev' = PlainEvent("ConstructionFails")
    /\ calls' = <<>>
    /\ UNCHANGED <<discipline, appVars, window, mailbox, now, frameMotions,
                   oomSeen>>

OnUserEvent ==
    /\ Running
    /\ UNCHANGED entities
    /\ mailbox # <<>>
    /\ mailbox' = Tail(mailbox)
    /\ user_event(Head(mailbox))

OnCloseRequested ==
    /\ Running
    /\ UNCHANGED entities
    /\ IsSome(window)
    /\ UNCHANGED window
    /\ window_event(PlainEvent("CloseRequested"), "Ok")

\* The platform resizes the window and reports the new inner size.
OnResized ==
    /\ Running
    /\ UNCHANGED entities
    /\ IsSome(window)
    /\ \E s \in Sizes :
          /\ window' = Some([Unwrap(window) EXCEPT !.size = s])
          /\ window_event(Event("Resized", s[1], s[2], "", FALSE), "Ok")

OnRedrawRequested ==
    /\ Running
    /\ UNCHANGED entities
    /\ IsSome(window)
    /\ UNCHANGED window
    /\ \E res \in SurfaceResults :
          window_event(PlainEvent("RedrawRequested"), res)

OnKeyboardInput ==
    /\ Running
    /\ UNCHANGED entities
    /\ IsSome(window)
    /\ UNCHANGED window
    /\ \E code \in KeyCodes, pressed \in BOOLEAN :
          window_event(Event("KeyboardInput", 0, 0, code, pressed), "Ok")

\* Any WindowEvent the handler has no arm for (the `_ => {}` arm).
OnOtherWindowEvent ==
    /\ Running
    /\ UNCHANGED entities
    /\ IsSome(window)
    /\ UNCHANGED window
    /\ window_event(PlainEvent("Focused"), "Ok")

OnMouseMotion ==
    /\ Running
    /\ UNCHANGED entities
    /\ Len(frameMotions) < MaxMotions
    /\ \E delta \in MotionInputs :
          device_event(Event("MouseMotion", delta[1], delta[2], "", FALSE))

\* Any DeviceEvent other than MouseMotion.
OnOtherDeviceEvent ==
    /\ Running
    /\ UNCHANGED entities
    /\ device_event(PlainEvent("Button"))

\* instant::Instant::now() advances.
Tick ==
    /\ Running
    /\ UNCHANGED entities
    /\ now < MaxTime
    /\ now' = now + 1
    /\ UNCHANGED <<launched, sent, redrawn>>
    /\ ev' = PlainEvent("Tick")
    /\ calls' = <<>>
    /\ UNCHANGED <<discipline, status, appVars, window, building, mailbox,
                   frameMotions, oomSeen>>

\* run_app returns once exit was requested.
LoopExits ==
    /\ Running
    /\ UNCHANGED entities
    /\ exiting
    /\ status' = "exited"
    /\ UNCHANGED <<launched, sent, redrawn>>
    /\ ev' = PlainEvent("LoopExits")
    /\ calls' = <<>>
    /\ UNCHANGED <<discipline, appVars, window, building, mailbox, now,
                   frameMotions, oomSeen>>

Next ==
    \/ OnReady
    \/ ConstructionCompletes
    \/ ConstructionFails
    \/ OnUserEvent
    \/ OnCloseRequested
    \/ OnResized
    \/ OnRedrawRequested
    \/ OnKeyboardInput
    \/ OnOtherWindowEvent
    \/ OnMouseMotion
    \/ OnOtherDeviceEvent
    \/ Tick
    \/ LoopExits

Spec == Init /\ [][Next]_vars

\* The wasm32 build alone, with the scheduling its runtime gives: a spawned
\* task runs to its end, and an event sent through the proxy is dispatched.
DeferredInit == Init /\ discipline = "deferred"

DeferredFairSpec ==
    /\ DeferredInit
    /\ [][Next]_vars
    /\ WF_vars(ConstructionCompletes \/ ConstructionFails)
    /\ WF_vars(OnUserEvent)

\* ================================================================= World
\* Voxel(u64) and Chunk(Vec<Voxel>) of enum Entity, as records of one shape.
Voxel(id) == [tag |-> "Voxel", id |-> id, voxels |-> <<>>]

\* As Chunk, were the voxels kept in a set-like container: a voxel equal to
\* an earlier one of the chunk is dropped.
RECURSIVE Deduplicated(_)
Deduplicated(s) ==
    IF s = <<>> THEN <<>>
    ELSE LET n == Len(s)
             front == SubSeq(s, 1, n - 1)
         IN IF \E i \in 1..(n - 1) : s[i] = s[n]
            THEN Deduplicated(front)
            ELSE Append(Deduplicated(front), s[n])

ChunkDeduplicated(voxels) ==
    [tag |-> "Chunk", id |-> 0, voxels |-> Deduplicated(voxels)]

Chunk(voxels) == [tag |-> "Chunk", id |-> 0, voxels |-> voxels]

\* The voxel identifiers callers spawn.
VoxelIds == {1, 2, 3, 7}

\* As ChunkElements, were the element type of a chunk Entity itself.
ChunkElementsAnyEntity ==
    {Voxel(id) : id \in VoxelIds} \cup {Chunk(<<Voxel(1)>>)}

\* The element type of Chunk's Vec: Voxel values only.
ChunkElements == {Voxel(id) : id \in VoxelIds}

\* The voxels an entity holds, and the world holds.
EntityVoxels(e) == IF e.tag = "Voxel" THEN 1 ELSE Len(e.voxels)
RECURSIVE VoxelCount(_)
VoxelCount(es) ==
    IF es = <<>> THEN 0 ELSE EntityVoxels(Head(es)) + VoxelCount(Tail(es))

\* Sequences over S of length 0..n
BoundedSeq(S, n) == UNION {[1..k -> S] : k \in 0..n}

\* As WorldPush, inserting at the front.
WorldPushFront(es, e) == <<e>> \o es

\* The collection after an append.
WorldPush(es, e) == Append(es, e)

\* World::spawn_voxel(id) -> handle
spawn_voxel(id) ==
    /\ entities' = WorldPush(entities, Voxel(id))
    /\ ev' = Event("spawn_voxel", id, 0, "", FALSE)
    /\ calls' = <<Call("spawn_voxel", "Ok", Len(entities) + 1, 0)>>
    /\ UNCHANGED loopVars

\* World::spawn_chunk(voxels) -> handle; an empty sequence is rejected.
spawn_chunk(voxels) ==
    /\ ev' = [Event("spawn_chunk", Len(voxels), 0, "", FALSE)
                 EXCEPT !.voxels = voxels]
    /\ UNCHANGED loopVars
    /\ IF voxels = <<>>
       THEN /\ entities' = entities
            /\ calls' = <<Call("spawn_chunk", "Err", 0, 0)>>
       ELSE /\ entities' = WorldPush(entities, Chunk(voxels))
            /\ calls' = <<Call("spawn_chunk", "Ok", Len(entities) + 1, 0)>>

\* World::iter(): the entities in insertion order.
WorldIter(es) == [i \in 1..Len(es) |-> es[i]]

SpawnVoxel ==
    /\ VoxelCount(entities) < MaxVoxels
    /\ \E id \in VoxelIds : spawn_voxel(id)

SpawnChunk ==
    \E voxels \in BoundedSeq(ChunkElements, MaxVoxels - VoxelCount(entities)) :
       spawn_chunk(voxels)

WorldInit == Init /\ discipline = "sync"

WorldNext == SpawnVoxel \/ SpawnChunk

WorldSpec == WorldInit /\ [][WorldNext]_vars

\* ============================================================ properties
HasCall(cs, op) == \E i \in 1..Len(cs) : cs[i].op = op
Rendered(cs, res) == \E i \in 1..Len(cs) : cs[i].op = "render" /\ cs[i].res = res
ResizeCall(s) == Call("resize", "", s[1], s[2])

\* The step is the handler of an event of this type, entered with a Renderer.
ActiveStep(type) == IsSome(renderer) /\ ev'.type = type

\* C1: once a Renderer is installed its stored size is the last size a
\* resize reported whenever that size is non-zero; and a redraw whose
\* render() reports Lost or Outdated makes, as its next and last Renderer
\* call, resize with exactly the stored (width, height), and requests no
\* exit.
C1_ResizeStoredAndRecovered ==
    [][
        /\ (ActiveStep("Resized") /\ NonZero(<<ev'.a, ev'.b>>))
             => Unwrap(renderer').size = <<ev'.a, ev'.b>>
        /\ (IsSome(renderer') /\ NonZero(Unwrap(window').size))
             => Unwrap(renderer').size = Unwrap(window').size
        /\ (ActiveStep("RedrawRequested")
              /\ (Rendered(calls', "Lost") \/ Rendered(calls', "Outdated")))
             => /\ Len(calls') = 3
                /\ calls'[1].op = "update"
                /\ calls'[2].op = "render"
                /\ calls'[3] = ResizeCall(Unwrap(renderer).size)
                /\ Unwrap(renderer').size = Unwrap(renderer).size
                /\ exiting' = exiting
                /\ status' = "running"
    ]_vars

C1_Witness ==
    /\ ev.type = "RedrawRequested"
    /\ Rendered(calls, "Outdated")
    /\ IsSome(renderer)
    /\ Unwrap(renderer).size = <<MaxWidth, 1>>
    /\ calls[3] = ResizeCall(<<MaxWidth, 1>>)
    /\ ~exiting

\* C2: a render() that returns OutOfMemory makes the Application Exiting,
\* and once some render() has returned OutOfMemory no handler calls render()
\* again.
C2_OutOfMemoryIsTerminal ==
    [][
        /\ Rendered(calls', "OutOfMemory") => exiting'
        /\ oomSeen => ~HasCall(calls', "render")
    ]_vars

\* C3: a redraw whose render() reports Timeout or Other leaves the
\* Application state, the stored size and the surface configuration as
\* they were, and makes no resize and no exit call.
C3_TimeoutAndOtherIgnored ==
    [][
        (ActiveStep("RedrawRequested")
           /\ (Rendered(calls', "Timeout") \/ Rendered(calls', "Other")))
          => /\ exiting' = exiting
             /\ status' = status
             /\ IsSome(renderer')
             /\ Unwrap(renderer').size = Unwrap(renderer).size
             /\ Unwrap(renderer').config = Unwrap(renderer).config
             /\ ~HasCall(calls', "resize")
             /\ ~HasCall(calls', "exit")
    ]_vars

C3_Witness ==
    /\ ev.type = "RedrawRequested"
    /\ Rendered(calls, "Timeout")
    /\ Len(calls) = 3
    /\ calls[3].op = "log::warn"
    /\ AppState = "Active"

\* C4: a resize with a zero width or height stores the size, leaves the
\* surface configuration at its previous, non-zero size and does not fail;
\* the configuration of an installed Renderer changes only in a step that
\* makes a resize call with both dimensions non-zero.
C4_ZeroResizeSkipsReconfiguration ==
    [][
        /\ (ActiveStep("Resized") /\ ~NonZero(<<ev'.a, ev'.b>>))
             => /\ status' = "running"
                /\ IsSome(renderer')
                /\ Unwrap(renderer').size = <<ev'.a, ev'.b>>
                /\ Unwrap(renderer').config = Unwrap(renderer).config
                /\ NonZero(Unwrap(renderer').config)
        /\ (IsSome(renderer) /\ IsSome(renderer') /\ ev'.type # "Ready"
              /\ Unwrap(renderer').config # Unwrap(renderer).config)
             => /\ NonZero(Unwrap(renderer').config)
                /\ \E i \in 1..Len(calls') :
                      calls'[i] = ResizeCall(Unwrap(renderer').config)
    ]_vars

C4_Witness ==
    /\ ev.type = "Resized"
    /\ ev.a = 0
    /\ IsSome(renderer)
    /\ Unwrap(renderer).size = <<0, 1>>
    /\ Unwrap(renderer).config = <<MaxWidth, 1>>
    /\ status = "running"

\* C5 (as stated): whenever render() is invoked, the configured surface size
\* equals the last size a resize event reported.
C5_ConfiguredForLastResize ==
    [][
        ActiveStep("RedrawRequested")
          => Unwrap(renderer).config = Unwrap(window).size
    ]_vars

\* C5 (amended): whenever render() is invoked, the stored size equals the
\* last size a resize event reported, and the configured surface size equals
\* it whenever both its dimensions are non-zero; otherwise the surface keeps
\* a non-zero configuration.
C5_ConfiguredForLastNonZeroResize ==
    [][
        ActiveStep("RedrawRequested")
          => /\ HasCall(calls', "render")
             /\ Unwrap(renderer).size = Unwrap(window).size
             /\ NonZero(Unwrap(renderer).size)
                  => Unwrap(renderer).config = Unwrap(window).size
             /\ NonZero(Unwrap(renderer).config)
    ]_vars

C5_Witness ==
    /\ ev.type = "RedrawRequested"
    /\ HasCall(calls, "render")
    /\ IsSome(renderer)
    /\ Unwrap(window).size = <<MaxWidth, 0>>
    /\ Unwrap(renderer).size = <<MaxWidth, 0>>
    /\ NonZero(Unwrap(renderer).config)

\* C6: while no Renderer is installed, a resize, redraw, pointer-motion or
\* key event changes no Application state, makes no call and requests no
\* exit.
C6_UninitializedEventsAreNoOps ==
    [][
        (renderer = None
           /\ ev'.type \in {"Resized", "RedrawRequested", "MouseMotion",
                            "KeyboardInput"})
          => /\ UNCHANGED <<exiting, renderer, last_render_time, proxy>>
             /\ UNCHANGED <<status, building, mailbox, frameMotions, oomSeen>>
             /\ calls' = <<>>
    ]_vars

C6_Witness ==
    /\ renderer = None
    /\ IsSome(window)
    /\ ev.type = "KeyboardInput"
    /\ ev.key = "Escape"
    /\ ev.pressed
    /\ AppState = "Uninitialized"

\* C7: a window-close request makes the Application Exiting from any state.
C7_CloseAlwaysExits ==
    [][ev'.type = "CloseRequested" => exiting']_vars

\* C8: the window-ready handler of the synchronous build returns with a
\* Renderer installed; that of the deferred build leaves the Renderer slot
\* as it was, and the slot of the deferred build is filled exactly by the
\* handler of the completed-Renderer delivery.
C8_InstallPoint ==
    [][
        /\ (ev'.type = "Ready" /\ status' = "running" /\ discipline = "sync")
             => IsSome(renderer') /\ HasCall(calls', "Renderer::new")
        /\ (ev'.type = "Ready" /\ discipline = "deferred")
             => renderer' = renderer
        /\ (ev'.type = "UserEvent" /\ discipline = "deferred")
             => IsSome(renderer')
        /\ (renderer = None /\ IsSome(renderer'))
             => \/ discipline = "sync" /\ ev'.type = "Ready"
                \/ discipline = "deferred" /\ ev'.type = "UserEvent"
    ]_vars

C8_Witness ==
    /\ discipline = "deferred"
    /\ ev.type = "UserEvent"
    /\ AppState = "Active"
    /\ ~proxy
    /\ ~building

\* C9: with a Renderer installed, a key event calls event_loop.exit() if and
\* only if it is a press of Escape; any other key event leaves the
\* Application as it was.
C9_OnlyEscapePressExits ==
    [][
        ActiveStep("KeyboardInput")
          => /\ HasCall(calls', "exit") <=> (ev'.key = "Escape" /\ ev'.pressed)
             /\ exiting' = (exiting \/ (ev'.key = "Escape" /\ ev'.pressed))
             /\ UNCHANGED <<renderer, last_render_time, proxy, status>>
    ]_vars

C9_Witness ==
    /\ ev.type = "KeyboardInput"
    /\ ev.key = "Escape"
    /\ ~ev.pressed
    /\ AppState = "Active"
    /\ calls = <<>>

\* The deltas of ms taken in the order p (a permutation of its indices).
Permuted(ms, p) == [i \in 1..Len(ms) |-> ms[p[i]]]
IndexPermutations(n) ==
    {p \in [1..n -> 1..n] : \A i, j \in 1..n : p[i] = p[j] => i = j}

\* process_mouse applied to each delta of ms in turn.
RECURSIVE Accumulate(_, _)
Accumulate(r, ms) ==
    IF ms = <<>> THEN r
    ELSE Accumulate(ProcessMouse(r, Head(ms)[1], Head(ms)[2]), Tail(ms))

RECURSIVE SumMotions(_)
SumMotions(ms) ==
    IF ms = <<>> THEN <<0, 0>>
    ELSE LET rest == SumMotions(Tail(ms))
         IN <<Head(ms)[1] + rest[1], Head(ms)[2] + rest[2]>>

\* C10: the pending delta is the sum of the deltas received since the last
\* update, whatever the order they are applied in; the update of a redraw
\* consumes that sum and leaves both accumulators zero.
C10_MotionIsAdditive ==
    [][
        /\ IsSome(renderer')
             => Unwrap(renderer').cam = SumMotions(frameMotions')
        /\ ActiveStep("MouseMotion")
             => \A p \in IndexPermutations(Len(frameMotions')) :
                   Accumulate(RendererNew(<<1, 1>>),
                              Permuted(frameMotions', p)).cam
                     = Unwrap(renderer').cam
        /\ ActiveStep("RedrawRequested")
             => /\ Unwrap(renderer).cam = SumMotions(frameMotions)
                /\ Unwrap(renderer').cam = <<0, 0>>
                /\ frameMotions' = <<>>
    ]_vars

C10_Witness ==
    /\ IsSome(renderer)
    /\ ev.type = "MouseMotion"
    /\ frameMotions = << <<3, -1>>, <<1, 2>> >>
    /\ Unwrap(renderer).cam = <<4, 1>>

\* C11: spawn_chunk with an empty sequence is rejected and leaves the
\* entities as they were; every Chunk of the world is non-empty and holds
\* Voxel values only.
C11_ChunksNonEmptyAndFlat ==
    [][
        /\ (ev'.type = "spawn_chunk" /\ ev'.voxels = <<>>)
             => /\ entities' = entities
                /\ calls' = <<Call("spawn_chunk", "Err", 0, 0)>>
        /\ \A i \in 1..Len(entities') :
              entities'[i].tag = "Chunk"
                => /\ entities'[i].voxels # <<>>
                   /\ \A j \in 1..Len(entities'[i].voxels) :
                         entities'[i].voxels[j].tag = "Voxel"
    ]_vars

C11_Witness ==
    /\ ev.type = "spawn_chunk"
    /\ calls = <<Call("spawn_chunk", "Err", 0, 0)>>
    /\ entities = <<Chunk(<<Voxel(1), Voxel(2)>>)>>

\* C12: a spawn appends exactly the spawned entity (a chunk with its voxels
\* in the order given) after the entities already there, which it leaves as
\* they were; iter() yields the entities in that insertion order.
C12_SpawnAppendsInOrder ==
    [][
        /\ ev'.type = "spawn_voxel"
             => WorldIter(entities') = WorldIter(entities) \o <<Voxel(ev'.a)>>
        /\ (ev'.type = "spawn_chunk" /\ ev'.voxels # <<>>)
             => /\ Len(WorldIter(entities')) = Len(entities) + 1
                /\ WorldIter(entities')[Len(entities) + 1].tag = "Chunk"
                /\ WorldIter(entities')[Len(entities) + 1].voxels = ev'.voxels
                /\ calls' = <<Call("spawn_chunk", "Ok", Len(entities) + 1, 0)>>
        /\ Len(entities') >= Len(entities)
        /\ \A i \in 1..Len(entities) :
              WorldIter(entities')[i] = WorldIter(entities)[i]
    ]_vars

C12_Witness ==
    /\ ev.type = "spawn_chunk"
    /\ WorldIter(entities)
         = <<Voxel(7), Chunk(<<Voxel(1), Voxel(2), Voxel(3)>>)>>

GrabFailed(cs) ==
    \E i \in 1..Len(cs) : cs[i].op = "set_cursor_grab" /\ cs[i].res = "Err"
SetupFailed(cs) ==
    \E i \in 1..Len(cs) :
       /\ cs[i].op \in {"create_window", "set_cursor_grab", "Renderer::new"}
       /\ cs[i].res = "Err"

\* C13: whenever a Renderer is installed its window has a confined, hidden
\* cursor; a refused confinement panics inside the handler, which installs
\* no Renderer and launches no construction, and nothing runs after a panic
\* (so no render call is issued).
C13_ActiveImpliesConfinedCursor ==
    [][
        /\ IsSome(renderer')
             => /\ IsSome(window')
                /\ Unwrap(window').cursor_grab = "Confined"
                /\ ~Unwrap(window').cursor_visible
        /\ GrabFailed(calls')
             => /\ status' = "panicked"
                /\ renderer' = renderer
                /\ ~HasCall(calls', "Renderer::new")
                /\ ~HasCall(calls', "spawn_local")
        /\ status = "running"
    ]_vars

C13_Witness ==
    /\ status = "panicked"
    /\ GrabFailed(calls)
    /\ renderer = None
    /\ window = None

\* C14 (as stated): a startup failure happens before the event loop has
\* delivered any event to the Application.
C14_NoFailureOnceLoopDelivers ==
    [][status' = "panicked" => ev.type = "Init"]_vars

\* C14 (amended): a startup failure is a panic raised inside the
\* window-ready handler or inside the deferred construction task, whenever
\* that runs; every failed setup step panics, the panicking step installs
\* no Renderer, and nothing runs after it.
C14_FailureAbortsInsideHandler ==
    [][
        /\ status' = "panicked"
             => /\ \/ ev'.type = "Ready" /\ SetupFailed(calls')
                   \/ ev'.type = "ConstructionFails"
                /\ renderer' = renderer
                /\ mailbox' = mailbox
        /\ SetupFailed(calls') => status' = "panicked"
        /\ status = "running"
    ]_vars

C14_Witness ==
    /\ status = "panicked"
    /\ ev.type = "Ready"
    /\ SetupFailed(calls)
    /\ redrawn

\* C15: a redraw handled with a Renderer installed sets last_render_time to
\* now and calls update(now - last_render_time), with a non-negative dt,
\* then render(), once each and in that order, then at most one call of the
\* result dispatch; no handler calls render() other than right after update.
C15_RedrawOrder ==
    [][
        /\ ActiveStep("RedrawRequested")
             => /\ Len(calls') \in {2, 3}
                /\ calls'[1] = Call("update", "", now - last_render_time, 0)
                /\ calls'[1].a >= 0
                /\ calls'[2].op = "render"
                /\ \A i \in 3..Len(calls') :
                      calls'[i].op \in {"resize", "exit", "log::warn"}
                /\ (Len(calls') = 2) <=> (calls'[2].res = "Ok")
                /\ last_render_time' = now
        /\ \A i \in 1..Len(calls') :
              calls'[i].op = "render" => i = 2 /\ calls'[1].op = "update"
        /\ \A i \in 1..Len(calls') :
              calls'[i].op = "update" => i = 1 /\ ev'.type = "RedrawRequested"
    ]_vars

C15_Witness ==
    /\ ev.type = "RedrawRequested"
    /\ calls = <<Call("update", "", MaxTime, 0), Call("render", "Ok", 0, 0)>>
    /\ last_render_time = MaxTime

C17_TaskTouchesNoAppState ==
    [][
        /\ ev'.type \in {"ConstructionCompletes", "ConstructionFails"}
             => UNCHANGED <<renderer, last_render_time, proxy, exiting,
                            frameMotions>>
        /\ (IsSome(renderer') /\ (renderer = None \/ frameMotions' # frameMotions
                                   \/ ev'.type \in {"Ready", "UserEvent"}))
             => \/ ev'.type = "UserEvent" /\ discipline = "deferred"
                \/ ev'.type = "Ready"
                     /\ (discipline = "sync" \/ renderer' = renderer)
                \/ /\ IsSome(renderer)
                   /\ ev'.type \in {"MouseMotion", "RedrawRequested"}
    ]_vars

C17_Witness ==
    /\ ev.type = "ConstructionCompletes"
    /\ renderer = None
    /\ Len(mailbox) = 1
    /\ now = MaxTime
    /\ last_render_time = CreatedAt

\* C18: a window-ready signal received with a Renderer installed constructs
\* no Renderer and leaves the installed one as it was.
C18_ReadyWhileActiveIsNoOp ==
    [][
        (IsSome(renderer) /\ ev'.type = "Ready" /\ status' = "running")
          => renderer' = renderer /\ ~HasCall(calls', "Renderer::new")
    ]_vars

\* C19: at most one construction is ever launched and at most one Renderer
\* is ever sent through the proxy; a launch takes the proxy, which never
\* comes back, and a ready signal without the proxy launches nothing.
C19_AtMostOneConstruction ==
    [][
        /\ launched' <= 1
        /\ sent' <= launched'
        /\ Len(mailbox') <= 1
        /\ launched' # launched
             => proxy /\ ~proxy' /\ HasCall(calls', "spawn_local")
        /\ ~proxy => ~proxy'
        /\ (ev'.type = "Ready" /\ ~proxy)
             => ~HasCall(calls', "spawn_local") /\ building' = building
    ]_vars

C19_Witness ==
    /\ discipline = "deferred"
    /\ launched = 1
    /\ ev.type = "Ready"
    /\ status = "running"
    /\ ~HasCall(calls, "spawn_local")
    /\ building

\* C20: last_render_time changes only in a redraw handled with a Renderer
\* installed, never decreases, and the first such redraw passes update the
\* whole time since the Application was created.
C20_FrameClock ==
    [][
        /\ last_render_time' # last_render_time
             => ActiveStep("RedrawRequested")
        /\ last_render_time' >= last_render_time
        /\ (ActiveStep("RedrawRequested") /\ ~redrawn)
             => calls'[1] = Call("update", "", now - CreatedAt, 0)
        /\ ~redrawn => last_render_time = CreatedAt
    ]_vars

C20_Witness ==
    /\ discipline = "deferred"
    /\ ev.type = "RedrawRequested"
    /\ IsSome(renderer)
    /\ Len(calls) >= 2
    /\ calls[1] = Call("update", "", MaxTime, 0)
    /\ last_render_time = MaxTime
    /\ Unwrap(renderer).size = <<MaxWidth, 1>>

====
